---- MODULE Spec2Model ----
(***************************************************************************)
(* A model of the Grassroots SamTools service (src/src/samtools_service.c):*)
(* the index registry read from the configuration, the resolver            *)
(* GetSelectedIndexData, the scaffold fetcher GetScaffoldData with its     *)
(* line-wrapping loop, and the request handler RunSamToolsService with the *)
(* job record it fills in.                                                 *)
(*                                                                         *)
(* C strings are tuples of one-character strings; the null pointer is the  *)
(* tuple NULL, which is no C string.  The bytes of the output buffer are   *)
(* one-character strings too, with NUL standing for the '\0' byte.         *)
(***************************************************************************)
EXTENDS Integers, Sequences, FiniteSets, TLC

\* ------------------------------------------------------------ bounds
MaxIndexes == 2
MaxSeqLen == 3
MaxBreakIndex == 2
MaxPairedServices == 1
NumRequests == 2

\* ------------------------------------------------- program constants
S_DEFAULT_LINE_BREAK_INDEX == 60
BLASTDB_S == "Blast database"
FASTA_FILENAME_S == "Fasta"

NULL == <<"NULL">>
NUL == "NUL"
NoParameter == <<"NO PARAMETER">>

\* The names a configuration file or a request may carry.
Names == {<<>>, <<"a">>}
\* The name the server gives itself among its peers (GetServerProviderName).
ProviderName == <<"p">>
ScaffoldNames == {<<"s">>}

SeqsUpTo(S, n) == UNION {[1..k -> S] : k \in 0..n}

\* ------------------------------------------------------ configuration
\* A JSON object of index_files holds any subset of the two keys.
JsonObjects == UNION {[K -> Names] : K \in SUBSET {BLASTDB_S, FASTA_FILENAME_S}}

\* index_files is an array of objects or a single object.
IndexFilesConfigs ==
    {[is_array |-> TRUE, items |-> a] : a \in SeqsUpTo(JsonObjects, MaxIndexes)}
        \cup {[is_array |-> FALSE, items |-> <<o>>] : o \in JsonObjects}

GetJSONString(json_p, key_s) ==
    IF key_s \in DOMAIN json_p THEN json_p[key_s] ELSE NULL

IndexData(json_p) ==
    [id_blast_db_name_s |-> GetJSONString(json_p, BLASTDB_S),
     id_fasta_filename_s |-> GetJSONString(json_p, FASTA_FILENAME_S)]

\* The array stsd_index_data_p; its length is stsd_index_data_size.
GetSamToolsServiceConfig(index_files_p) ==
    IF index_files_p.is_array
    THEN [k \in 1..Len(index_files_p.items) |-> IndexData(index_files_p.items[k])]
    ELSE <<IndexData(index_files_p.items[1])>>

\* ---------------------------------------------------------- resolver
\* The while loop of GetSelectedIndexData: pos is the entry index_data_p
\* points at (1-based), remaining the counter i.  The result is the position
\* of the entry returned, 0 for a NULL result.
\* ScanIndexData that keeps looking after a match: the last match wins.
RECURSIVE ScanIndexData_LastMatch(_, _, _, _)
ScanIndexData_LastMatch(index_data_p, pos, remaining, index_s) ==
    IF remaining > 0
    THEN LET later == ScanIndexData_LastMatch(index_data_p, pos + 1,
                                              remaining - 1, index_s)
         IN  IF later # 0 THEN later
             ELSE IF \/ /\ index_data_p[pos].id_fasta_filename_s # NULL
                        /\ index_data_p[pos].id_fasta_filename_s = index_s
                     \/ /\ index_data_p[pos].id_blast_db_name_s # NULL
                        /\ index_data_p[pos].id_blast_db_name_s = index_s
                  THEN pos
                  ELSE 0
    ELSE 0

RECURSIVE ScanIndexData(_, _, _, _)
ScanIndexData(index_data_p, pos, remaining, index_s) ==
    IF remaining > 0
    THEN IF /\ index_data_p[pos].id_fasta_filename_s # NULL
            /\ index_data_p[pos].id_fasta_filename_s = index_s
         THEN pos
         ELSE IF /\ index_data_p[pos].id_blast_db_name_s # NULL
                 /\ index_data_p[pos].id_blast_db_name_s = index_s
              THEN pos
              ELSE ScanIndexData(index_data_p, pos + 1, remaining - 1, index_s)
    ELSE 0

GetSelectedIndexData(index_data_p, index_s) ==
    IF index_s # NoParameter
    THEN IF index_s # NULL
         THEN ScanIndexData(index_data_p, 1, Len(index_data_p), index_s)
         ELSE 0
    ELSE 0

\* ------------------------------------------- the options shown to clients
CreateDatabaseName(database_s, provider_s) ==
    IF database_s = NULL THEN NULL ELSE provider_s \o <<":">> \o database_s

\* SetUpIndexesParamater with the two arguments of
\* CreateAndAddStringParameterOption exchanged: the qualified name becomes the
\* option's value.
SetUpIndexesParamater_Swapped(index_data_p, num_paired) ==
    LET provider_s == IF num_paired > 0 THEN ProviderName ELSE NULL
        Description(e) ==
            IF provider_s # NULL
            THEN IF CreateDatabaseName(e.id_blast_db_name_s, provider_s) # NULL
                 THEN CreateDatabaseName(e.id_blast_db_name_s, provider_s)
                 ELSE e.id_blast_db_name_s
            ELSE e.id_blast_db_name_s
    IN  [k \in 1..Len(index_data_p) |->
            [value |-> Description(index_data_p[k]),
             description |-> index_data_p[k].id_fasta_filename_s]]

\* One option per entry: its value is the Fasta file name and its
\* description the database name, qualified by the provider when the
\* service has paired services.
SetUpIndexesParamater(index_data_p, num_paired) ==
    LET provider_s == IF num_paired > 0 THEN ProviderName ELSE NULL
        Description(e) ==
            IF provider_s # NULL
            THEN IF CreateDatabaseName(e.id_blast_db_name_s, provider_s) # NULL
                 THEN CreateDatabaseName(e.id_blast_db_name_s, provider_s)
                 ELSE e.id_blast_db_name_s
            ELSE e.id_blast_db_name_s
    IN  [k \in 1..Len(index_data_p) |->
            [value |-> index_data_p[k].id_fasta_filename_s,
             description |-> Description(index_data_p[k])]]

\* ------------------------------------------------------- byte buffer
\* n bytes read from sequence_s starting at offset off (0-based).  The byte
\* at offset seq_len is the terminator; what lies beyond it is not the
\* sequence's memory, and g is the byte found there.
ReadBytes(sequence_s, off, n, g) ==
    [k \in 1..n |->
        IF off + k - 1 < Len(sequence_s) THEN sequence_s[off + k]
        ELSE IF off + k - 1 = Len(sequence_s) THEN NUL
        ELSE g]

\* True when reading n bytes at off leaves the memory of sequence_s.
ReadsBeyondTerminator(sequence_s, off, n) == off + n > Len(sequence_s) + 1

\* What may lie in memory after the sequence's terminator.
StrayBytes == {NUL, "N"}

\* The C string at the start of a byte array: the bytes before the first NUL.
RECURSIVE CString(_)
CString(bytes) ==
    IF bytes = <<>> \/ Head(bytes) = NUL THEN <<>>
    ELSE <<Head(bytes)>> \o CString(Tail(bytes))

\* The sequence fai_fetch returns for a scaffold of n bases.
Bases == <<"A", "C", "G", "T">>
FetchedSequence(n) == [k \in 1..n |-> Bases[((k - 1) % 4) + 1]]

\* ------------------------------------------------------------- state
VARIABLES
    stsd_index_data_p,  \* the registry: the array of IndexData
    paired_services,    \* se_paired_services.ll_size
    pc,                 \* where the request being served stands
    index_s,            \* the request's index parameter
    scaffold_s,         \* the request's scaffold parameter
    index_p,            \* the request's line break parameter
    break_index,        \* the wrap width GetScaffoldData is called with
    selected,           \* position of selected_index_data_p, 0 for NULL
    se_jobs_p,          \* TRUE when the job set was allocated
    job,                \* the ServiceJob of the request
    status_log,         \* the statuses given to SetServiceJobStatus, in order
    num_jobs_ran,       \* what RunPairedServices returned, -1 before it ran
    buffer_p,           \* TRUE while the ByteBuffer is allocated
    buffer,             \* the bytes of the ByteBuffer
    filename_s,         \* the file GetScaffoldData is called with
    fai_p,              \* the faidx handle: "NULL", "open" or "destroyed"
    fai_destroyed,      \* number of fai_destroy calls in this request
    sequence_s,         \* what fai_fetch returned
    sequence_freed,     \* number of free (sequence_s) calls in this request
    seq_len,
    i,
    success_flag,
    append_failed,      \* TRUE once an append of GetScaffoldData has failed
    read_end,           \* how far into sequence_s the wrapping code has read
    requests,           \* concurrent requests: where each RunSamToolsService call is
    job_sets,           \* the ServiceJobSets allocated so far, each a sequence of jobs
    shared_se_jobs_p    \* service_p -> se_jobs_p: 0 for NULL, or a position in job_sets

service_vars == <<stsd_index_data_p, paired_services>>
request_vars == <<index_s, scaffold_s, index_p, break_index, selected>>
job_vars == <<se_jobs_p, job, status_log, num_jobs_ran>>
fetch_vars == <<filename_s, fai_p, fai_destroyed, sequence_s, sequence_freed,
                seq_len, i, success_flag, append_failed, read_end>>
single_vars == <<request_vars, job_vars, buffer_p, buffer, fetch_vars, pc>>
concurrent_vars == <<requests, job_sets, shared_se_jobs_p>>
vars == <<service_vars, single_vars, concurrent_vars>>

NoLineBreak == [present |-> FALSE, value |-> 0]

Requests == 1..NumRequests

\* A call of RunSamToolsService that has not begun: no entry selected, no
\* job_p, nothing returned.
NoRequest == [pc |-> "idle", selected |-> 0, job_p |-> <<0, 0>>, returned |-> -1]

NoJob == [created |-> FALSE, status |-> "OS_IDLE", results |-> <<>>, errors |-> <<>>]

\* The state of a service that is serving no request.
Idle ==
    /\ pc = "idle"
    /\ index_s = NoParameter /\ scaffold_s = NULL /\ index_p = NoLineBreak
    /\ break_index = 0 /\ selected = 0
    /\ se_jobs_p = FALSE /\ job = NoJob /\ status_log = <<>> /\ num_jobs_ran = -1
    /\ buffer_p = FALSE /\ buffer = <<>>
    /\ filename_s = NULL /\ fai_p = "NULL" /\ fai_destroyed = 0
    /\ sequence_s = NULL /\ sequence_freed = 0 /\ seq_len = 0 /\ i = 0
    /\ success_flag = FALSE /\ append_failed = FALSE /\ read_end = 0

\* GetServices: the service exists once GetSamToolsServiceConfig succeeded.
Init ==
    /\ \E index_files_p \in IndexFilesConfigs :
           stsd_index_data_p = GetSamToolsServiceConfig(index_files_p)
    /\ paired_services \in 0..MaxPairedServices
    /\ Idle
    /\ requests = [r \in Requests |-> NoRequest]
    /\ job_sets = <<>>
    /\ shared_se_jobs_p = 0

\* ------------------------------------------------------------ inputs
\* What a client may send as the index: nothing, any name, or the value or
\* the description of one of the options it was shown.
RequestedIndexes ==
    LET options == SetUpIndexesParamater(stsd_index_data_p, paired_services)
    IN  {NoParameter, NULL} \cup Names
            \cup {options[k].value : k \in DOMAIN options}
            \cup {options[k].description : k \in DOMAIN options}

RequestedScaffolds == {NoParameter, NULL} \cup ScaffoldNames

\* The line break parameter: absent, or a number.
RequestedLineBreaks ==
    {NoLineBreak}
        \cup {[present |-> TRUE, value |-> v] : v \in 0..MaxBreakIndex}

\* LineBreakArgument without the default: an absent parameter wraps nothing.
LineBreakArgument_NoDefault(line_break_p) == line_break_p.value

\* The third argument of GetScaffoldData (line 449):
\* index_p ? *index_p : S_DEFAULT_LINE_BREAK_INDEX.
LineBreakArgument(line_break_p) ==
    IF line_break_p.present THEN line_break_p.value
    ELSE S_DEFAULT_LINE_BREAK_INDEX

SetServiceJobStatus(job_p, status) == [job_p EXCEPT !.status = status]

\* AddGeneralErrorMessageToServiceJob, which may itself fail (ok = FALSE).
AddGeneralErrorMessageToServiceJob(job_p, message_s, ok) ==
    IF ok THEN [job_p EXCEPT !.errors = Append(@, message_s)] ELSE job_p

\* ------------------------------------------------- RunSamToolsService
\* Lines 410-436: the job set, the resolver, the scaffold parameter, the
\* byte buffer and the job.
RunSamToolsService_Enter ==
    /\ pc = "idle"
    /\ \E jobs_ok \in BOOLEAN, requested_s \in RequestedIndexes,
          requested_scaffold_s \in RequestedScaffolds,
          buffer_ok \in BOOLEAN, job_ok \in BOOLEAN :
        LET hit == GetSelectedIndexData(stsd_index_data_p, requested_s) IN
        /\ index_s' = requested_s
        /\ se_jobs_p' = jobs_ok
        /\ IF ~jobs_ok
           THEN /\ pc' = "returned"
                /\ UNCHANGED <<selected, scaffold_s, buffer_p, job>>
           ELSE /\ selected' = hit
                /\ IF hit = 0
                   THEN /\ pc' = "delegate"
                        /\ UNCHANGED <<scaffold_s, buffer_p, job>>
                   ELSE /\ scaffold_s' = IF requested_scaffold_s = NoParameter
                                         THEN NULL ELSE requested_scaffold_s
                        /\ IF requested_scaffold_s \in {NoParameter, NULL}
                           THEN /\ pc' = "returned"
                                /\ UNCHANGED <<buffer_p, job>>
                           ELSE IF ~buffer_ok
                           THEN /\ pc' = "returned"
                                /\ UNCHANGED <<buffer_p, job>>
                           ELSE IF ~job_ok
                           THEN \* FreeByteBuffer at once
                                /\ pc' = "returned"
                                /\ UNCHANGED <<buffer_p, job>>
                           ELSE /\ pc' = "job_created"
                                /\ buffer_p' = TRUE
                                /\ job' = [NoJob EXCEPT !.created = TRUE]
    /\ UNCHANGED <<concurrent_vars, service_vars, index_p, break_index, status_log, num_jobs_ran,
                   buffer, fetch_vars>>

\* Lines 437-444: the line break parameter is read and the job is started.
RunSamToolsService_Start ==
    /\ pc = "job_created"
    /\ \E line_break_p \in RequestedLineBreaks :
           /\ index_p' = line_break_p
           /\ break_index' = LineBreakArgument(line_break_p)
    /\ job' = SetServiceJobStatus(job, "OS_STARTED")
    /\ status_log' = Append(status_log, "OS_STARTED")
    /\ pc' = "started"
    /\ UNCHANGED <<concurrent_vars, service_vars, index_s, scaffold_s, selected, se_jobs_p,
                   num_jobs_ran, buffer_p, buffer, fetch_vars>>

\* Lines 446-449: "Assume failure", then the call of GetScaffoldData.
RunSamToolsService_AssumeFailure ==
    /\ pc = "started"
    /\ job' = SetServiceJobStatus(job, "OS_FAILED")
    /\ status_log' = Append(status_log, "OS_FAILED")
    /\ filename_s' = stsd_index_data_p[selected].id_fasta_filename_s
    /\ pc' = "gsd_load"
    /\ UNCHANGED <<concurrent_vars, service_vars, request_vars, se_jobs_p, num_jobs_ran, buffer_p,
                   buffer, fai_p, fai_destroyed, sequence_s, sequence_freed,
                   seq_len, i, success_flag, append_failed, read_end>>

\* ---------------------------------------------------- GetScaffoldData
\* Lines 572-579 and 687-698: fai_load.  Its argument must be a file name;
\* given a null pointer the call has no defined outcome: the process dies
\* or the load fails.
GetScaffoldData_Load ==
    /\ pc = "gsd_load"
    /\ success_flag' = FALSE
    /\ IF filename_s = NULL
       THEN /\ pc' \in {"crashed", "gsd_return"}
            /\ fai_p' = "NULL"
       ELSE \E loaded \in BOOLEAN :
                /\ fai_p' = IF loaded THEN "open" ELSE "NULL"
                /\ pc' = IF loaded THEN "gsd_header" ELSE "gsd_return"
    /\ UNCHANGED <<concurrent_vars, service_vars, request_vars, job_vars, buffer_p, buffer,
                   filename_s, fai_destroyed, sequence_s, sequence_freed,
                   seq_len, i, append_failed, read_end>>

\* GetScaffoldData_Header returning at once when the header cannot be
\* written, without fai_destroy.
GetScaffoldData_Header_Leak ==
    /\ pc = "gsd_header"
    /\ LET parts == <<(<<">">>), scaffold_s, (<<"\n">>)>> IN
       \E appended \in 0..3 :
           IF appended = 3
           THEN /\ buffer' = buffer \o parts[1] \o parts[2] \o parts[3]
                /\ pc' = "gsd_fetch"
                /\ append_failed' = FALSE
           ELSE /\ buffer' = buffer \o (IF appended >= 1 THEN parts[1] ELSE <<>>)
                                    \o (IF appended >= 2 THEN parts[2] ELSE <<>>)
                /\ pc' = "gsd_return"
                /\ append_failed' = TRUE
    /\ UNCHANGED <<concurrent_vars, service_vars, request_vars, job_vars, buffer_p, filename_s,
                   fai_p, fai_destroyed, sequence_s, sequence_freed, seq_len, i,
                   success_flag, read_end>>

\* Lines 581, 680-685: the header line.  AppendStringsToByteBuffer appends its
\* arguments one by one, so a failure leaves those appended before it.
GetScaffoldData_Header ==
    /\ pc = "gsd_header"
    /\ LET parts == <<(<<">">>), scaffold_s, (<<"\n">>)>> IN
       \E appended \in 0..3 :
           IF appended = 3
           THEN /\ buffer' = buffer \o parts[1] \o parts[2] \o parts[3]
                /\ pc' = "gsd_fetch"
                /\ append_failed' = FALSE
                /\ UNCHANGED <<fai_p, fai_destroyed>>
           ELSE /\ buffer' = buffer \o (IF appended >= 1 THEN parts[1] ELSE <<>>)
                                    \o (IF appended >= 2 THEN parts[2] ELSE <<>>)
                /\ fai_p' = "destroyed"
                /\ fai_destroyed' = fai_destroyed + 1
                /\ pc' = "gsd_return"
                /\ append_failed' = TRUE
    /\ UNCHANGED <<concurrent_vars, service_vars, request_vars, job_vars, buffer_p, filename_s,
                   sequence_s, sequence_freed, seq_len, i, success_flag,
                   read_end>>

\* Lines 584-603 and 675-685: fai_fetch, and the choice between wrapping and
\* not wrapping.
GetScaffoldData_Fetch ==
    /\ pc = "gsd_fetch"
    /\ \/ \* fai_fetch returns NULL
          /\ sequence_s' = NULL
          /\ fai_p' = "destroyed"
          /\ fai_destroyed' = fai_destroyed + 1
          /\ pc' = "gsd_return"
          /\ UNCHANGED <<seq_len, i, success_flag>>
       \/ \E n \in 0..MaxSeqLen :
              /\ sequence_s' = FetchedSequence(n)
              /\ seq_len' = n
              /\ i' = 0
              /\ IF break_index > 0
                 THEN /\ success_flag' = TRUE
                      /\ pc' = "gsd_loop"
                 ELSE /\ success_flag' = FALSE
                      /\ pc' = "gsd_unwrapped"
              /\ UNCHANGED <<fai_p, fai_destroyed>>
    /\ UNCHANGED <<concurrent_vars, service_vars, request_vars, job_vars, buffer_p, buffer,
                   filename_s, sequence_freed, append_failed, read_end>>

\* What one pass of the while loop (lines 605-632) does to i, the buffer,
\* success_flag and loop_flag; current_p is sequence_s + i throughout.
\* block_ok and newline_ok are the results of the two AppendToByteBuffer
\* calls, g the byte found beyond the sequence's memory.
WrapLoopPass(block_ok, newline_ok, g) ==
    LET block == ReadBytes(sequence_s, i, break_index, g) IN
    IF ~block_ok
    THEN [i |-> i, buffer |-> buffer, success_flag |-> FALSE, loop_flag |-> TRUE]
    ELSE IF ~newline_ok
    THEN [i |-> i, buffer |-> buffer \o block, success_flag |-> FALSE,
          loop_flag |-> TRUE]
    ELSE IF i + break_index < seq_len
    THEN [i |-> i + break_index, buffer |-> buffer \o block \o <<"\n">>,
          success_flag |-> TRUE, loop_flag |-> TRUE]
    ELSE [i |-> i, buffer |-> buffer \o block \o <<"\n">>,
          success_flag |-> TRUE, loop_flag |-> FALSE]

GetScaffoldData_Loop ==
    /\ pc = "gsd_loop"
    /\ \E block_ok \in BOOLEAN, newline_ok \in BOOLEAN, g \in StrayBytes :
         \/ \* the block is copied from beyond the sequence's memory
            /\ block_ok
            /\ ReadsBeyondTerminator(sequence_s, i, break_index)
            /\ pc' = "crashed"
            /\ UNCHANGED <<i, buffer, success_flag, append_failed, read_end>>
         \/ LET pass == WrapLoopPass(block_ok, newline_ok, g) IN
            /\ i' = pass.i
            /\ buffer' = pass.buffer
            /\ success_flag' = pass.success_flag
            /\ append_failed' = (append_failed \/ ~block_ok \/ ~newline_ok)
            /\ read_end' = IF block_ok /\ i + break_index > read_end
                           THEN i + break_index ELSE read_end
            /\ pc' = IF pass.loop_flag /\ pass.success_flag
                     THEN "gsd_loop" ELSE "gsd_tail"
    /\ UNCHANGED <<concurrent_vars, service_vars, request_vars, job_vars, buffer_p, filename_s,
                   fai_p, fai_destroyed, sequence_s, sequence_freed, seq_len>>

\* WrapTail appending the rest of the sequence whatever the loop's outcome.
WrapTail_Unguarded(tail_ok, newline_ok) ==
    IF seq_len > i
    THEN LET tail == ReadBytes(sequence_s, i, seq_len - i, NUL) IN
         IF ~tail_ok
         THEN [buffer |-> buffer, success_flag |-> FALSE]
         ELSE IF ~newline_ok
         THEN [buffer |-> buffer \o tail, success_flag |-> FALSE]
         ELSE [buffer |-> buffer \o tail \o <<"\n">>, success_flag |-> TRUE]
    ELSE [buffer |-> buffer, success_flag |-> success_flag]

\* What lines 634-658 do after the loop: the rest of the sequence and its
\* newline.
WrapTail(tail_ok, newline_ok) ==
    IF success_flag /\ seq_len > i
    THEN LET tail == ReadBytes(sequence_s, i, seq_len - i, NUL) IN
         IF ~tail_ok
         THEN [buffer |-> buffer, success_flag |-> FALSE]
         ELSE IF ~newline_ok
         THEN [buffer |-> buffer \o tail, success_flag |-> FALSE]
         ELSE [buffer |-> buffer \o tail \o <<"\n">>, success_flag |-> TRUE]
    ELSE [buffer |-> buffer, success_flag |-> success_flag]

\* Lines 634-660, then free (sequence_s) and fai_destroy (lines 673, 685).
GetScaffoldData_Tail ==
    /\ pc = "gsd_tail"
    /\ \E tail_ok \in BOOLEAN, newline_ok \in BOOLEAN :
         LET done == WrapTail(tail_ok, newline_ok) IN
         /\ buffer' = done.buffer
         /\ success_flag' = done.success_flag
         /\ append_failed' = IF success_flag /\ seq_len > i
                              THEN ~tail_ok \/ ~newline_ok ELSE append_failed
         /\ read_end' = IF success_flag /\ seq_len > i /\ tail_ok
                           /\ seq_len > read_end
                        THEN seq_len ELSE read_end
    /\ sequence_freed' = sequence_freed + 1
    /\ fai_p' = "destroyed"
    /\ fai_destroyed' = fai_destroyed + 1
    /\ pc' = "gsd_return"
    /\ UNCHANGED <<concurrent_vars, service_vars, request_vars, job_vars, buffer_p, filename_s,
                   sequence_s, seq_len, i>>

\* Unwrapped with the length off by one: the terminator is copied too.
Unwrapped_WithTerminator(append_ok) ==
    IF append_ok
    THEN [buffer |-> buffer \o ReadBytes(sequence_s, 0, seq_len + 1, NUL),
          success_flag |-> TRUE]
    ELSE [buffer |-> buffer, success_flag |-> success_flag]

\* What lines 661-671 do when break_index is not positive: the sequence is
\* appended whole.
Unwrapped(append_ok) ==
    IF append_ok
    THEN [buffer |-> buffer \o ReadBytes(sequence_s, 0, seq_len, NUL),
          success_flag |-> TRUE]
    ELSE [buffer |-> buffer, success_flag |-> success_flag]

\* Lines 661-671, then free (sequence_s) and fai_destroy (lines 673, 685).
GetScaffoldData_Unwrapped ==
    /\ pc = "gsd_unwrapped"
    /\ \E append_ok \in BOOLEAN :
         LET done == Unwrapped(append_ok) IN
         /\ buffer' = done.buffer
         /\ success_flag' = done.success_flag
         /\ append_failed' = ~append_ok
    /\ sequence_freed' = sequence_freed + 1
    /\ fai_p' = "destroyed"
    /\ fai_destroyed' = fai_destroyed + 1
    /\ pc' = "gsd_return"
    /\ UNCHANGED <<concurrent_vars, service_vars, request_vars, job_vars, buffer_p, filename_s,
                   sequence_s, seq_len, i, read_end>>

\* ------------------------------------ RunSamToolsService, continued
\* RecordOutcome marking a failed fetch with a status of its own.
RecordOutcome_SetsError(result_ok, add_ok, error_ok) ==
    IF success_flag
    THEN IF result_ok
         THEN IF add_ok
              THEN [SetServiceJobStatus(job, "OS_SUCCEEDED")
                       EXCEPT !.results = Append(@, CString(buffer))]
              ELSE AddGeneralErrorMessageToServiceJob(job, "Failed to add result",
                                                      error_ok)
         ELSE AddGeneralErrorMessageToServiceJob(job, "Create sequence error",
                                                 error_ok)
    ELSE AddGeneralErrorMessageToServiceJob(SetServiceJobStatus(job, "OS_ERROR"),
                                            "Failed to get scaffold data", error_ok)

\* RecordOutcome attaching the buffer's content before AddResultToServiceJob
\* is known to have succeeded.
RecordOutcome_KeepsPayload(result_ok, add_ok, error_ok) ==
    IF success_flag
    THEN IF result_ok
         THEN IF add_ok
              THEN [SetServiceJobStatus(job, "OS_SUCCEEDED")
                       EXCEPT !.results = Append(@, CString(buffer))]
              ELSE AddGeneralErrorMessageToServiceJob(
                       [job EXCEPT !.results = Append(@, CString(buffer))],
                       "Failed to add result", error_ok)
         ELSE AddGeneralErrorMessageToServiceJob(job, "Create sequence error",
                                                 error_ok)
    ELSE AddGeneralErrorMessageToServiceJob(job, "Failed to get scaffold data",
                                            error_ok)

\* What lines 449-519 do to the job once GetScaffoldData has returned.
\* result_ok: the JSON result could be built from the buffer's C string;
\* add_ok: AddResultToServiceJob succeeded; error_ok: the error message
\* could be added to the job.
RecordOutcome(result_ok, add_ok, error_ok) ==
    IF success_flag
    THEN IF result_ok
         THEN IF add_ok
              THEN [SetServiceJobStatus(job, "OS_SUCCEEDED")
                       EXCEPT !.results = Append(@, CString(buffer))]
              ELSE AddGeneralErrorMessageToServiceJob(job, "Failed to add result",
                                                      error_ok)
         ELSE AddGeneralErrorMessageToServiceJob(job, "Create sequence error",
                                                 error_ok)
    ELSE AddGeneralErrorMessageToServiceJob(job, "Failed to get scaffold data",
                                            error_ok)

\* Lines 449-525 and 559: the outcome is recorded, the buffer freed and the
\* job set returned.
RunSamToolsService_Result ==
    /\ pc = "gsd_return"
    /\ \E result_ok \in BOOLEAN, add_ok \in BOOLEAN, error_ok \in BOOLEAN :
         LET recorded == RecordOutcome(result_ok, add_ok, error_ok) IN
         /\ job' = recorded
         /\ status_log' = IF recorded.status # job.status
                          THEN Append(status_log, recorded.status)
                          ELSE status_log
    /\ buffer_p' = FALSE
    /\ pc' = "returned"
    /\ UNCHANGED <<concurrent_vars, service_vars, request_vars, se_jobs_p, num_jobs_ran, buffer,
                   fetch_vars>>

\* Lines 546-559: no entry was selected, so the paired services are tried.
\* RunPairedServices reports how many of them ran the request.
RunSamToolsService_Delegate ==
    /\ pc = "delegate"
    /\ num_jobs_ran' \in 0..paired_services
    /\ pc' = "returned"
    /\ UNCHANGED <<concurrent_vars, service_vars, request_vars, se_jobs_p, job, status_log,
                   buffer_p, buffer, fetch_vars>>

\* The server has taken the job set; the service waits for the next request.
NextRequest ==
    /\ pc = "returned"
    /\ pc' = "idle"
    /\ index_s' = NoParameter /\ scaffold_s' = NULL /\ index_p' = NoLineBreak
    /\ break_index' = 0
    /\ selected' = 0
    /\ se_jobs_p' = FALSE /\ job' = NoJob /\ status_log' = <<>>
    /\ num_jobs_ran' = -1
    /\ buffer_p' = FALSE /\ buffer' = <<>>
    /\ filename_s' = NULL /\ fai_p' = "NULL" /\ fai_destroyed' = 0
    /\ sequence_s' = NULL /\ sequence_freed' = 0 /\ seq_len' = 0 /\ i' = 0
    /\ success_flag' = FALSE /\ append_failed' = FALSE /\ read_end' = 0
    /\ UNCHANGED <<concurrent_vars, service_vars>>

Next ==
    \/ RunSamToolsService_Enter
    \/ RunSamToolsService_Start
    \/ RunSamToolsService_AssumeFailure
    \/ GetScaffoldData_Load
    \/ GetScaffoldData_Header
    \/ GetScaffoldData_Fetch
    \/ GetScaffoldData_Loop
    \/ GetScaffoldData_Tail
    \/ GetScaffoldData_Unwrapped
    \/ RunSamToolsService_Result
    \/ RunSamToolsService_Delegate
    \/ NextRequest

Spec == Init /\ [][Next]_vars

\* ------------------------------------------------ concurrent requests
\* Several calls of RunSamToolsService on one Service.  The buffer, the
\* faidx handle and the sequence are locals of each call; the job set is
\* kept in the Service.
\* Line 411: service_p -> se_jobs_p = AllocateServiceJobSet (service_p).
Concurrent_Allocate ==
    /\ \E r \in Requests, jobs_ok \in BOOLEAN :
         /\ requests[r].pc = "idle"
         /\ IF jobs_ok
            THEN /\ job_sets' = Append(job_sets, <<>>)
                 /\ shared_se_jobs_p' = Len(job_sets) + 1
            ELSE /\ shared_se_jobs_p' = 0
                 /\ UNCHANGED job_sets
         /\ requests' = [requests EXCEPT ![r].pc = "allocated"]
    /\ UNCHANGED <<service_vars, single_vars>>

\* Lines 417-421: the test of service_p -> se_jobs_p, then the resolver.
Concurrent_Resolve ==
    /\ \E r \in Requests, requested_s \in RequestedIndexes :
         LET hit == GetSelectedIndexData(stsd_index_data_p, requested_s) IN
         /\ requests[r].pc = "allocated"
         /\ requests' = IF shared_se_jobs_p = 0
                        THEN [requests EXCEPT ![r].pc = "return"]
                        ELSE [requests EXCEPT ![r].selected = hit,
                                              ![r].pc = IF hit = 0 THEN "return"
                                                        ELSE "resolved"]
    /\ UNCHANGED <<service_vars, single_vars, job_sets, shared_se_jobs_p>>

\* Lines 423-435: the scaffold parameter, the buffer, and
\* CreateAndAddServiceJobToService, which adds the new job to the job set
\* the Service holds at that moment.  job_ok is FALSE when one of the
\* three fails.
Concurrent_CreateJob ==
    /\ \E r \in Requests, job_ok \in BOOLEAN :
         /\ requests[r].pc = "resolved"
         /\ IF job_ok /\ shared_se_jobs_p # 0
            THEN /\ job_sets' = [job_sets EXCEPT ![shared_se_jobs_p] =
                                    Append(@, [owner |-> r, status |-> "OS_IDLE"])]
                 /\ requests' = [requests EXCEPT
                        ![r].job_p = <<shared_se_jobs_p,
                                       Len(job_sets[shared_se_jobs_p]) + 1>>,
                        ![r].pc = "job_created"]
            ELSE /\ requests' = [requests EXCEPT ![r].pc = "return"]
                 /\ UNCHANGED job_sets
    /\ UNCHANGED <<service_vars, single_vars, shared_se_jobs_p>>

\* Lines 437-525: the job is started, GetScaffoldData is called with the
\* call's own buffer, and the outcome is set on the job through job_p.
Concurrent_Fetch ==
    /\ \E r \in Requests, fetched \in BOOLEAN :
         LET job_p == requests[r].job_p IN
         /\ requests[r].pc = "job_created"
         /\ job_sets' = [job_sets EXCEPT ![job_p[1]][job_p[2]].status =
                             IF fetched THEN "OS_SUCCEEDED" ELSE "OS_FAILED"]
         /\ requests' = [requests EXCEPT ![r].pc = "return"]
    /\ UNCHANGED <<service_vars, single_vars, shared_se_jobs_p>>

\* Line 559: return service_p -> se_jobs_p.
Concurrent_Return ==
    /\ \E r \in Requests :
         /\ requests[r].pc = "return"
         /\ requests' = [requests EXCEPT ![r].returned = shared_se_jobs_p,
                                         ![r].pc = "returned"]
    /\ UNCHANGED <<service_vars, single_vars, job_sets, shared_se_jobs_p>>

NextConcurrent ==
    \/ Concurrent_Allocate
    \/ Concurrent_Resolve
    \/ Concurrent_CreateJob
    \/ Concurrent_Fetch
    \/ Concurrent_Return

SpecConcurrent == Init /\ [][NextConcurrent]_vars

\* =========================================================== properties
\* GetScaffoldData has returned true.
FetchSucceeded == pc = "gsd_return" /\ success_flag

HeaderLine == <<">">> \o scaffold_s \o <<"\n">>

\* The bytes appended after the header line.
Body == SubSeq(buffer, Len(HeaderLine) + 1, Len(buffer))

RECURSIVE WithoutNewlines(_)
WithoutNewlines(bytes) ==
    IF bytes = <<>> THEN <<>>
    ELSE IF Head(bytes) = "\n" THEN WithoutNewlines(Tail(bytes))
    ELSE <<Head(bytes)>> \o WithoutNewlines(Tail(bytes))

\* The lines of a text: each ends at a newline, the last one at the end of
\* the text if no newline ends it.
RECURSIVE SplitLines(_)
SplitLines(bytes) ==
    IF bytes = <<>> THEN <<>>
    ELSE LET ends == {k \in 1..Len(bytes) : bytes[k] = "\n"} IN
         IF ends = {} THEN <<bytes>>
         ELSE LET k == CHOOSE e \in ends : \A f \in ends : e <= f IN
              <<SubSeq(bytes, 1, k - 1)>> \o SplitLines(SubSeq(bytes, k + 1, Len(bytes)))

\* C1: with a positive wrap width, the body of a successful fetch, its
\* newlines removed, is the fetched sequence byte for byte.
C1_BodyIsTheSequence ==
    (FetchSucceeded /\ break_index > 0) => WithoutNewlines(Body) = sequence_s

\* C2: with a sequence of at least one byte and a positive wrap width, every
\* body line of a successful fetch but the last is break_index long, the last
\* is 1..break_index long, and there are as many lines as seq_len needs.
C2_LineLengths ==
    (FetchSucceeded /\ break_index > 0 /\ seq_len >= 1) =>
        LET lines == SplitLines(Body) IN
        /\ Len(lines) = (seq_len + break_index - 1) \div break_index
        /\ \A k \in 1..(Len(lines) - 1) : Len(lines[k]) = break_index
        /\ Len(lines[Len(lines)]) \in 1..break_index

\* C3: a successful fetch of an empty sequence leaves the header line alone
\* in the buffer, whatever the wrap width.
C3_EmptySequenceHeaderOnly ==
    (FetchSucceeded /\ seq_len = 0) => buffer = HeaderLine

\* C4 as claimed: with a wrap width of zero the buffer of a successful fetch
\* is the header line, the sequence and one trailing newline.
C4_UnwrappedEndsWithNewline ==
    (FetchSucceeded /\ break_index = 0) =>
        buffer = HeaderLine \o sequence_s \o <<"\n">>

\* C4 as amended: with a wrap width of zero the buffer of a successful fetch
\* is the header line followed by the sequence, which no newline follows.
C4_UnwrappedIsHeaderAndSequence ==
    (FetchSucceeded /\ break_index = 0) => buffer = HeaderLine \o sequence_s

C4_Witness == FetchSucceeded /\ break_index = 0 /\ seq_len = MaxSeqLen

\* GetSelectedIndexData was called for the request being served.
ResolverRan == se_jobs_p

\* Entry k holds id as its Fasta file name or as its database name.
MatchesEntry(k, id) ==
    \/ stsd_index_data_p[k].id_fasta_filename_s = id
    \/ stsd_index_data_p[k].id_blast_db_name_s = id

\* The first entry in registry order that holds id, 0 when none does.
FirstMatch(id) ==
    LET hits == {k \in 1..Len(stsd_index_data_p) : MatchesEntry(k, id)} IN
    IF hits = {} THEN 0 ELSE CHOOSE k \in hits : \A h \in hits : k <= h

\* C5 as claimed: the resolver returns the first entry whose Fasta file name
\* or database name equals the requested identifier, and no entry when the
\* identifier is absent or empty or when no entry matches.
C5_FirstMatchUnlessEmpty ==
    ResolverRan =>
        /\ selected \in 0..Len(stsd_index_data_p)
        /\ selected = IF index_s \in {NoParameter, NULL, <<>>} THEN 0
                      ELSE FirstMatch(index_s)

\* C5 as amended: the resolver returns the first entry whose Fasta file name
\* or database name equals the requested identifier, the empty string being
\* an identifier like any other, and no entry when the identifier is absent
\* or when no entry matches.
C5_FirstMatch ==
    ResolverRan =>
        /\ selected \in 0..Len(stsd_index_data_p)
        /\ selected = IF index_s \in {NoParameter, NULL} THEN 0
                      ELSE FirstMatch(index_s)

\* Two entries hold the requested identifier and the first is returned.
C5_Witness ==
    /\ ResolverRan
    /\ Len(stsd_index_data_p) = 2
    /\ index_s = <<"a">>
    /\ MatchesEntry(1, index_s) /\ MatchesEntry(2, index_s)
    /\ selected = 1

\* The request names the provider-qualified database name of entry k.
RequestsQualifiedName(k) ==
    /\ stsd_index_data_p[k].id_blast_db_name_s # NULL
    /\ index_s = CreateDatabaseName(stsd_index_data_p[k].id_blast_db_name_s,
                                    ProviderName)

\* C6 as claimed: with paired services, a request for the provider-qualified
\* database name of an entry resolves to an entry of that database name.
C6_QualifiedNameResolves ==
    (ResolverRan /\ paired_services > 0) =>
        \A k \in 1..Len(stsd_index_data_p) :
            RequestsQualifiedName(k) =>
                /\ selected # 0
                /\ stsd_index_data_p[selected].id_blast_db_name_s
                       = stsd_index_data_p[k].id_blast_db_name_s

\* C6 as amended: with paired services, a request for the value of the
\* option offered for an entry (its Fasta file name) resolves to the first
\* entry holding that name; the provider-qualified database name is the
\* option's description only, and a request for it resolves to no entry
\* unless some entry holds that very string as a name of its own.
C6_OptionValueResolves ==
    (ResolverRan /\ paired_services > 0) =>
        LET options == SetUpIndexesParamater(stsd_index_data_p, paired_services) IN
        \A k \in 1..Len(stsd_index_data_p) :
            /\ (options[k].value # NULL /\ index_s = options[k].value) =>
                   (selected \in 1..k /\ MatchesEntry(selected, index_s))
            /\ (RequestsQualifiedName(k) /\ FirstMatch(index_s) = 0) =>
                   (options[k].description = index_s /\ selected = 0)

\* A request for the qualified name of the second entry finds no entry.
C6_Witness ==
    /\ ResolverRan /\ paired_services > 0
    /\ Len(stsd_index_data_p) = 2
    /\ RequestsQualifiedName(2)
    /\ selected = 0

\* C7: the resolver never returns an entry without a Fasta file name, and
\* GetScaffoldData is never called with a null file name.
C7_NoEntryWithoutFastaName ==
    /\ (ResolverRan /\ selected # 0) =>
           stsd_index_data_p[selected].id_fasta_filename_s # NULL
    /\ pc = "gsd_load" => filename_s # NULL

\* GetScaffoldData is between its fai_load and its return.
InsideGetScaffoldData ==
    pc \in {"gsd_header", "gsd_fetch", "gsd_loop", "gsd_tail", "gsd_unwrapped"}

\* C8: once GetScaffoldData has returned, a handle that fai_load opened has
\* been destroyed exactly once and is open no more, a sequence that fai_fetch
\* returned has been freed exactly once, and nothing was destroyed or freed
\* that was not obtained; until then the handle is open and not destroyed.
C8_ReleasedExactlyOnce ==
    /\ pc \in {"gsd_return", "returned"} =>
           /\ fai_p # "open"
           /\ fai_destroyed = IF fai_p = "destroyed" THEN 1 ELSE 0
           /\ sequence_freed = IF sequence_s # NULL THEN 1 ELSE 0
    /\ InsideGetScaffoldData => (fai_p = "open" /\ fai_destroyed = 0)
    /\ pc \in {"gsd_loop", "gsd_tail", "gsd_unwrapped"} =>
           (sequence_s # NULL /\ sequence_freed = 0)

\* The call failed on a write after the sequence was fetched.
C8_Witness ==
    /\ pc = "gsd_return" /\ ~success_flag
    /\ fai_p = "destroyed" /\ sequence_s # NULL
    /\ fai_destroyed = 1 /\ sequence_freed = 1

TerminalStatuses == {"OS_SUCCEEDED", "OS_FAILED"}

IsPrefix(s, t) == Len(s) <= Len(t) /\ s = SubSeq(t, 1, Len(s))

\* C9 as claimed: a job is given at most one terminal status.
C9_OneTerminalStatus ==
    Cardinality({k \in DOMAIN status_log : status_log[k] \in TerminalStatuses}) <= 1

\* C9 as amended: a job is set to Started, then to Failed before the fetch,
\* then at most once to Succeeded; Succeeded is never replaced, and when the
\* handler returns the job holds the last terminal status it was given.
C9_StartedFailedThenSucceeded ==
    /\ IsPrefix(status_log, <<"OS_STARTED", "OS_FAILED", "OS_SUCCEEDED">>)
    /\ job.status = IF status_log = <<>> THEN "OS_IDLE"
                    ELSE status_log[Len(status_log)]
    /\ (pc = "returned" /\ job.created) =>
           (Len(status_log) >= 2 /\ job.status \in TerminalStatuses)

C9_Witness ==
    /\ pc = "returned"
    /\ status_log = <<"OS_STARTED", "OS_FAILED", "OS_SUCCEEDED">>

\* C10: whenever RunSamToolsService has returned a job set to which no paired
\* service added a job, the request has a job in it whose status is Succeeded
\* or Failed.
C10_ReturnsTerminalJob ==
    (pc = "returned" /\ se_jobs_p /\ num_jobs_ran <= 0) =>
        (job.created /\ job.status \in TerminalStatuses)

\* C11: when no entry was selected and RunPairedServices ran the request on
\* no paired service, the handler returns a job whose status is Failed and
\* which carries an error message.
C11_NoStoreAvailableIsRecorded ==
    (pc = "returned" /\ num_jobs_ran = 0) =>
        (job.created /\ job.status = "OS_FAILED" /\ job.errors # <<>>)

\* The handler has returned with a job of its own.
ReturnedWithJob == pc = "returned" /\ job.created

Delegated == num_jobs_ran >= 0

\* GetScaffoldData has been called.
FetchInvoked == Len(status_log) >= 2

\* C14: neither the fetch nor the delegation happens before the resolver has
\* answered; the delegation happens exactly when the resolver found no entry;
\* the fetch happens only after a hit, with the entry's fasta file name, the
\* request's scaffold name and the request's line break, 60 when the request
\* has none; no request both fetches and delegates.
C14_ResolverThenFetchOrDelegate ==
    /\ (pc = "delegate" \/ Delegated \/ FetchInvoked) => ResolverRan
    /\ (pc = "delegate" \/ Delegated) => selected = 0
    /\ (ResolverRan /\ selected = 0 /\ pc # "idle") => (pc = "delegate" \/ Delegated)
    /\ FetchInvoked =>
           /\ selected # 0
           /\ filename_s = stsd_index_data_p[selected].id_fasta_filename_s
           /\ scaffold_s \in ScaffoldNames
           /\ break_index = IF index_p.present THEN index_p.value
                            ELSE S_DEFAULT_LINE_BREAK_INDEX
    /\ ~(FetchInvoked /\ (pc = "delegate" \/ Delegated))

C14_Witness ==
    /\ pc = "returned" /\ FetchInvoked /\ selected # 0
    /\ ~index_p.present /\ break_index = S_DEFAULT_LINE_BREAK_INDEX

\* GetScaffoldData returns true only after the load, the header, the fetch
\* and every append succeeded.
SuccessNeedsEveryStep ==
    FetchSucceeded =>
        /\ fai_destroyed = 1
        /\ sequence_s # NULL
        /\ ~append_failed
        /\ IsPrefix(HeaderLine, buffer)

\* Once an append has failed the buffer keeps its content until the request
\* is over, and the call does not return true.
NoAppendAfterFailure ==
    (append_failed /\ pc' # "idle") => (buffer' = buffer /\ ~success_flag')

\* C15: GetScaffoldData returns true only if fai_load, the header appends,
\* fai_fetch and every block, newline and tail append succeeded; after the
\* first failed append it appends nothing more and returns false.
C15_FailureStopsAppending ==
    []SuccessNeedsEveryStep /\ [][NoAppendAfterFailure]_vars

C15_Witness ==
    /\ pc = "gsd_return" /\ append_failed /\ ~success_flag
    /\ Len(buffer) > Len(HeaderLine)

\* C16: with a positive wrap width, the appends of the wrap loop and of the
\* tail read the fetched sequence only at offsets below seq_len.
C16_ReadsWithinSequence ==
    break_index > 0 => read_end <= seq_len

\* C13: under every interleaving of concurrent requests on one Service, a
\* request that has returned got the job set that holds its own job, and
\* that job set holds no other request's job.
C13_ReturnsOwnJobSet ==
    \A r \in Requests :
        requests[r].pc = "returned" =>
            LET returned == requests[r].returned
                job_p == requests[r].job_p
            IN  /\ job_p # <<0, 0>> => returned = job_p[1]
                /\ returned # 0 =>
                       \A k \in DOMAIN job_sets[returned] :
                           job_sets[returned][k].owner = r

====
